---- MODULE Spec2Model ----
(***************************************************************************)
(* Travlr API: credential and session lifecycle.                           *)
(*                                                                         *)
(* The model follows the request handlers of the authentication            *)
(* controller (register, login, forgot, reset), the helpers of the user    *)
(* model (setPassword, validPassword, createPasswordResetToken,            *)
(* generateJWT) and the route middleware (authenticateJWT, requireAdmin,   *)
(* requireTripBody) in front of the trip write handlers.                   *)
(*                                                                         *)
(* A handler is cut at its awaits: every store call and the mail dispatch  *)
(* is one step, and the synchronous code between two awaits belongs to the *)
(* step of the await that precedes it.  Several requests are in flight at  *)
(* once, one per client slot; a slot is free again as soon as its request  *)
(* is answered, and out keeps the latest response with the facts of its    *)
(* request.                                                                *)
(*                                                                         *)
(* Time is in milliseconds, as Date.now() gives it.  Strings that the code *)
(* transforms (emails, the Authorization header) are sequences of          *)
(* characters or of fields; the two hash functions are modelled as         *)
(* injective constructors (no collisions), and crypto.randomBytes(32) as   *)
(* a value never drawn before.                                             *)
(***************************************************************************)
EXTENDS Integers, Sequences, FiniteSets, TLC

VARIABLES
    users,      \* the users collection, keyed by the (unique) stored email
    trips,      \* the trips collection: per code, the name of the stored trip
    now,        \* Date.now()
    ticks,      \* how many times the clock has advanced
    nextTok,    \* how many reset tokens randomBytes has produced
    prod,       \* process.env.NODE_ENV === 'production'
    tripDocs,   \* the trips collection as the search reads it: per _id, the
                \* resort of the document (<<>>: no document has the _id)
    db,         \* connectWithRetry: where it stands, its retry count, the wait
                \* it set and the one before, and whether the server answers
    pc,         \* per client slot: the await its request stands at
    ctx,        \* per client slot: the locals of its handler
    out,        \* the response to the latest request, once it is sent
    held,       \* the session token a client has kept
    issuedAt,   \* history: when each reset token was created
    issuedFor,  \* history: the account each reset token was created for
    redeemed    \* history: the reset tokens a Reset has redeemed

vars == <<users, trips, now, ticks, nextTok, prod, tripDocs, db, pc, ctx, out, held,
          issuedAt, issuedFor, redeemed>>

-----------------------------------------------------------------------------
(* Bounds of the model *)

MaxTicks == 1

MaxTokens == 1

MaxTrips == 5

MaxRetries == 20

Procs == {"c1", "c2"}

\* an order of the slots
Before(q, p) == q = "c1" /\ p = "c2"

-----------------------------------------------------------------------------
(* Program constants *)

\* rawToken.length < 64 is rejected; randomBytes(32) in hex is 64 characters
TokenLen == 64

\* the page size of a search without a usable limit, and the range a limit
\* is clamped into
DefaultLimit == 5

MinLimit == 1

MaxLimit == 50

\* Math.min(30_000, 1000 * 2 ** retry)
MaxDelay == 30000

BaseDelay == 1000

\* Date.now() + 15 * 60 * 1000
ResetTTL == 15 * 60 * 1000

\* expiresIn: '7d', in seconds
SessionTTL == 7 * 24 * 60 * 60

-----------------------------------------------------------------------------
(* Strings *)

Lower(c) == CASE c = "A" -> "a" [] c = "R" -> "r" [] OTHER -> c

ToLowerCase(s) == [i \in DOMAIN s |-> Lower(s[i])]

RECURSIVE TrimStart(_)
TrimStart(s) == IF s # <<>> /\ Head(s) = " " THEN TrimStart(Tail(s)) ELSE s

RECURSIVE TrimEnd(_)
TrimEnd(s) ==
    IF s # <<>> /\ s[Len(s)] = " " THEN TrimEnd(SubSeq(s, 1, Len(s) - 1)) ELSE s

Trim(s) == TrimEnd(TrimStart(s))

\* an email path declared with lowercase: true only
LowercaseOnly(e) == ToLowerCase(e)

\* the email path of userSchema: lowercase: true, trim: true.  Mongoose runs
\* these setters when a document is built and when a query filter is cast.
NormalizeEmail(e) == Trim(ToLowerCase(e))

EmailInputs == { <<>>, <<"a">>, <<" ", "A">>, <<"r">> }

Keys == { NormalizeEmail(e) : e \in EmailInputs } \ { <<>> }

NoKey == <<>>

Names == { "", "Ana" }

Passwords == { "", "pw1", "pw2" }

-----------------------------------------------------------------------------
(* Password hasher: setPassword / validPassword *)

\* "pw1" followed by one character U+0000
Pw1Nul == "pw1\\0"

\* the passwords of the runs that exercise the hasher
HashPasswords == { "pw1", "pw2", Pw1Nul }

\* the HMAC key of a password shorter than the block of SHA-512: the bytes of
\* the password padded with zero bytes to 128, so that zero bytes at the end
\* of the password do not change the key
HmacKey(password) == IF password = Pw1Nul THEN "pw1" ELSE password

\* crypto.pbkdf2Sync(password, salt, 1000, 64, 'sha512').toString('hex'):
\* PBKDF2 uses the password only as the key of HMAC-SHA512
Pbkdf2(password, salt) == <<HmacKey(password), salt>>

NoHash == <<>>

\* a setPassword that would compute the hash with the salt already stored
SetPasswordKeepSalt(u, password, salt) ==
    [u EXCEPT !.hash = Pbkdf2(password, IF u.salt = "" THEN salt ELSE u.salt),
              !.salt = IF u.salt = "" THEN salt ELSE u.salt]

\* a setPassword that would draw a salt and leave the hash as it is
SetPasswordKeepHash(u, password, salt) == [u EXCEPT !.salt = salt]

\* userSchema.methods.setPassword, with the salt randomBytes(16) returned
SetPassword(u, password, salt) ==
    [u EXCEPT !.salt = salt, !.hash = Pbkdf2(password, salt)]

\* userSchema.methods.validPassword
ValidPassword(u, password) == u.hash = Pbkdf2(password, u.salt)

\* a password field of the JSON body that is the number 123, not a string
NumberPassword == "123 (number)"

\* crypto.pbkdf2Sync throws a TypeError when the password or the salt is not
\* a string or a buffer
Pbkdf2Throws(password, salt) == password = NumberPassword \/ salt = ""

-----------------------------------------------------------------------------
(* Reset tokens *)

\* a plaintext token: which random value it is (0: one never issued) and
\* how many characters of it are presented
NoToken == [id |-> 0, len |-> 0]

PlainToken(i) == [id |-> i, len |-> TokenLen]

\* the tokens a run can draw: the runs with concurrent Forgots draw one more
\* than the others
TokenIds == 1..(MaxTokens + 1)

\* crypto.createHash('sha256').update(token).digest('hex')
Sha256(t) == <<"sha256", t.id, t.len>>

NoDigest == <<>>

NoDate == -1

\* a token that would live for thirty minutes
CreatePasswordResetTokenLongLived(u, tok, t) ==
    [u EXCEPT !.resetPasswordToken = Sha256(tok),
              !.resetPasswordExpires = t + 2 * ResetTTL]

\* userSchema.methods.createPasswordResetToken on document u at time t, with
\* the token randomBytes(32) returned
CreatePasswordResetToken(u, tok, t) ==
    [u EXCEPT !.resetPasswordToken = Sha256(tok),
              !.resetPasswordExpires = t + ResetTTL]

\* a filter that would still match at the instant of expiry
MatchesResetInclusive(u, tokenHash, t) ==
    /\ u.exists
    /\ u.resetPasswordToken = tokenHash
    /\ u.resetPasswordExpires # NoDate
    /\ u.resetPasswordExpires >= t

\* the filter of reset's findOne:
\* { resetPasswordToken: tokenHash, resetPasswordExpires: { $gt: Date.now() } }
MatchesReset(u, tokenHash, t) ==
    /\ u.exists
    /\ u.resetPasswordToken = tokenHash
    /\ u.resetPasswordExpires # NoDate
    /\ u.resetPasswordExpires > t

TokenInputs ==
    { NoToken } \cup { PlainToken(i) : i \in 0..MaxTokens }
                \cup { [id |-> 1, len |-> TokenLen - 1],
                       [id |-> 1, len |-> TokenLen + 1] }

\* the token of the body and the token of the path of a reset request
ResetInputs ==
    { <<t, NoToken>> : t \in TokenInputs }
        \cup { <<NoToken, PlainToken(i)>> : i \in 1..MaxTokens }
        \cup { <<PlainToken(0), PlainToken(1)>>, <<PlainToken(1), PlainToken(0)>> }

\* const rawToken = (req.body && req.body.token) || req.params.token || ''
RawToken(bodyToken, pathToken) ==
    IF bodyToken # NoToken THEN bodyToken ELSE pathToken

-----------------------------------------------------------------------------
(* Session tokens *)

NoJwt == [_id |-> NoKey, email |-> NoKey, name |-> "", role |-> "",
          iat |-> 0, exp |-> 0, sig |-> "none"]

\* a token that would claim the admin role for every account
GenerateJWTAsAdmin(u, t) ==
    [_id |-> u.email, email |-> u.email, name |-> u.name, role |-> "admin",
     iat |-> t \div 1000, exp |-> (t \div 1000) + SessionTTL, sig |-> "valid"]

\* userSchema.methods.generateJWT: jwt.sign(claims, JWT_SECRET, '7d')
GenerateJWT(u, t) ==
    [_id |-> u.email, email |-> u.email, name |-> u.name, role |-> u.role,
     iat |-> t \div 1000, exp |-> (t \div 1000) + SessionTTL, sig |-> "valid"]

\* a verification that would check the signature and not the expiry
JwtVerifyNoExpiry(tok, t) == tok.sig = "valid"

\* jwt.verify(token, JWT_SECRET): the signature, then the expiry
JwtVerify(tok, t) == tok.sig = "valid" /\ (t \div 1000) < tok.exp

-----------------------------------------------------------------------------
(* The users collection *)

NoUser == [exists |-> FALSE, name |-> "", email |-> NoKey, role |-> "",
           hash |-> NoHash, salt |-> "",
           resetPasswordToken |-> NoDigest, resetPasswordExpires |-> NoDate]

\* a constructor that would make every new account an administrator
NewUserAsAdmin(name, email) ==
    [exists |-> TRUE, name |-> name, email |-> NormalizeEmail(email),
     role |-> "admin", hash |-> NoHash, salt |-> "",
     resetPasswordToken |-> NoDigest, resetPasswordExpires |-> NoDate]

\* new User({ name, email, password: '' }): role takes the schema default
NewUser(name, email) ==
    [exists |-> TRUE, name |-> name, email |-> NormalizeEmail(email),
     role |-> "user", hash |-> NoHash, salt |-> "",
     resetPasswordToken |-> NoDigest, resetPasswordExpires |-> NoDate]

\* User.findOne({ email }): the key of the account, or NoKey
FindByEmail(email) ==
    LET k == NormalizeEmail(email)
    IN  IF k \in Keys /\ users[k].exists THEN k ELSE NoKey

\* the account an administrator created directly in the store
AdminKey == <<"r">>

AdminUser ==
    SetPassword([NewUser("Root", AdminKey) EXCEPT !.role = "admin"], "pw1", "s1")


-----------------------------------------------------------------------------
(* The trips collection and the bodies of trip writes *)

TripCodes == { "T1", "T2" }

TripNames == { "n1", "n2" }

\* per code, the names of the stored trips that have the code, in the order
\* of their insertion (<<>>: no trip has the code)
NoTrips == [c \in TripCodes |-> <<>>]

NoBody == [code |-> "", name |-> "", start |-> ""]

TripBodies ==
    { [code |-> c, name |-> n, start |-> "2026-01-01"] :
        c \in TripCodes, n \in TripNames }
    \cup { [code |-> "T1", name |-> "", start |-> "2026-01-01"],
           [code |-> "T1", name |-> "n1", start |-> "not a date"] }

\* isNaN(new Date(b.start).getTime())
InvalidDate(start) == start = "not a date"

\* requireTripBody: "" when the body passes, else the message of the 400
RequireTripBody(b) ==
    IF b.code = "" \/ b.name = "" \/ b.start = ""
    THEN "Missing required fields"
    ELSE IF InvalidDate(b.start) THEN "Invalid start date" ELSE ""

-----------------------------------------------------------------------------
(* The connection to the store: connectWithRetry *)

\* a delay that would double without a cap
DelayUncapped(retry) == BaseDelay * 2 ^ retry

\* const delay = Math.min(30_000, 1000 * 2 ** retry)
Delay(retry) ==
    IF BaseDelay * 2 ^ retry < MaxDelay THEN BaseDelay * 2 ^ retry ELSE MaxDelay

\* the first call connectWithRetry() awaits mongoose.connect
Connecting == [state |-> "connecting", retry |-> 0, delay |-> 0, prev |-> 0,
               up |-> FALSE]

\* connectWithRetry has resolved with mongoose.connection at its first attempt
Connected == [Connecting EXCEPT !.state = "connected", !.up = TRUE]

\* the frame of a step of the connection
ConnectionOnly ==
    UNCHANGED <<users, trips, now, ticks, nextTok, prod, tripDocs, pc, ctx, out,
                held, issuedAt, issuedFor, redeemed>>

\* the server starts or stops answering
ServerTurns ==
    /\ db.state # "connected"
    /\ db' = [db EXCEPT !.up = ~db.up]
    /\ ConnectionOnly

\* await mongoose.connect(...) settles: the connection is returned, or the
\* error is logged and the timer of the wait is set
MongooseConnect ==
    /\ db.state = "connecting"
    /\ db' = IF db.up
             THEN [db EXCEPT !.state = "connected"]
             ELSE [db EXCEPT !.state = "waiting", !.delay = Delay(db.retry),
                             !.prev = db.delay]
    /\ ConnectionOnly

\* the timer fires: return connectWithRetry(retry + 1)
RetryAfterDelay ==
    /\ db.state = "waiting"
    /\ db.retry < MaxRetries
    /\ db' = [db EXCEPT !.state = "connecting", !.retry = db.retry + 1]
    /\ ConnectionOnly

-----------------------------------------------------------------------------
(* GET /trips/search: the filter, the page size and the cursor *)

\* the _ids of the collection, in the order of ObjectIds
TripIds == 1..MaxTrips

NoId == 0

Resorts == { <<"R", "a">>, <<"b">> }

NoDoc == <<>>

NoTripDocs == [id \in TripIds |-> NoDoc]

\* the resort parameter of a search (<<>>: none)
ResortFilters == { <<>>, <<" ", "A">> }

\* new RegExp(pattern, 'i').test(text), for a pattern of plain characters
RegexTestI(pattern, text) ==
    \E i \in 1..(Len(text) + 1) :
        /\ i + Len(pattern) - 1 <= Len(text)
        /\ SubSeq(ToLowerCase(text), i, i + Len(pattern) - 1) = ToLowerCase(pattern)

\* buildTripQuery: the _ids of the documents the filter selects
BuildTripQuery(resort) ==
    { id \in TripIds :
        /\ tripDocs[id] # NoDoc
        /\ resort # <<>> => RegexTestI(Trim(resort), tripDocs[id]) }

Digits == { "0", "1", "2", "3", "4", "5", "6", "7", "8", "9" }

DigitValue(c) ==
    CASE c = "0" -> 0 [] c = "1" -> 1 [] c = "2" -> 2 [] c = "3" -> 3
      [] c = "4" -> 4 [] c = "5" -> 5 [] c = "6" -> 6 [] c = "7" -> 7
      [] c = "8" -> 8 [] c = "9" -> 9

\* the limit parameter of a request, as text (<<>>: the parameter is absent)
LimitParams ==
    { <<>>, <<"a", "b", "c">>, <<"0">>, <<"-", "3">>, <<"1">>, <<"2">>, <<"5">>,
      <<"5", "0">>, <<"5", "1">>, <<" ", "3">>, <<"2", "x">> }

NaN == [nan |-> TRUE, val |-> 0]

\* the value of the digits at the start of s, continuing from acc
RECURSIVE LeadingDigits(_, _)
LeadingDigits(s, acc) ==
    IF s # <<>> /\ Head(s) \in Digits
    THEN LeadingDigits(Tail(s), 10 * acc + DigitValue(Head(s)))
    ELSE acc

\* parseInt(value, 10): blanks are skipped, a sign is read, then the digits
\* up to the first other character; NaN when no digit is there
ParseInt(value) ==
    LET t == TrimStart(value)
        neg == t # <<>> /\ Head(t) = "-"
        d == IF t # <<>> /\ Head(t) \in { "-", "+" } THEN Tail(t) ELSE t
    IN  IF d = <<>> \/ Head(d) \notin Digits
        THEN NaN
        ELSE [nan |-> FALSE,
              val |-> IF neg THEN 0 - LeadingDigits(d, 0) ELSE LeadingDigits(d, 0)]

Min(a, b) == IF a <= b THEN a ELSE b

Max(a, b) == IF a >= b THEN a ELSE b

\* a page size that would fall back to the smallest page
LimitDefaultSmallest(limit) ==
    IF ParseInt(limit).nan THEN MinLimit
    ELSE Min(Max(ParseInt(limit).val, MinLimit), MaxLimit)

\* Number.isNaN(limitRaw) ? 5 : Math.min(Math.max(limitRaw, 1), 50)
Limit(limit) ==
    LET limitRaw == ParseInt(limit)
    IN  IF limitRaw.nan THEN DefaultLimit
        ELSE Min(Max(limitRaw.val, MinLimit), MaxLimit)

\* a cursor: the encoding and the text it encodes (no cursor: both empty)
NoCursor == [enc |-> "", text |-> <<>>]

\* String(id): the ObjectId in hexadecimal, here two digits wide
HexString(id) == <<id \div 16, id % 16>>

\* a cursor that would name the document after the last one of the page
EncodeCursorOfNext(id) == [enc |-> "base64url", text |-> HexString(id + 1)]

\* encodeCursor: base64url of the hexadecimal text of the _id
EncodeCursor(id) == [enc |-> "base64url", text |-> HexString(id)]

\* ObjectId.isValid(raw), for text
ObjectIdIsValid(raw) == Len(raw) = 2 /\ \A i \in 1..2 : raw[i] \in 0..15

\* decodeCursor: the ObjectId of the decoded text, or null
DecodeCursor(cursor) ==
    IF ObjectIdIsValid(cursor.text)
    THEN cursor.text[1] * 16 + cursor.text[2]
    ELSE NoId

\* cursors a client makes up: text that is no ObjectId, and the _id 2
CursorInputs ==
    { [enc |-> "base64url", text |-> <<16, 0>>], EncodeCursor(2) }

\* sort({ _id: 1 }): the _ids of a set in ascending order
RECURSIVE SortById(_)
SortById(ids) ==
    IF ids = {} THEN <<>>
    ELSE LET m == CHOOSE x \in ids : \A y \in ids : x <= y
         IN  <<m>> \o SortById(ids \ {m})

\* limit(n) of a query, and docs.length = n
Take(docs, n) == SubSeq(docs, 1, Min(n, Len(docs)))

\* the facts of a search in the response: the parameters of the request,
\* the page and nextCursor of the response, the trips of the pages since the
\* search without cursor, and whether the request is part of such a walk
NoSearch == [resort |-> <<>>, limit |-> <<>>, cursor |-> NoCursor, page |-> <<>>,
             nextCursor |-> NoCursor, seen |-> <<>>, walk |-> FALSE]

-----------------------------------------------------------------------------
(* The Authorization header and the route middleware *)

\* a header: its first word, the spaces after it, the token that follows
\* and whether more text follows the token after a space
NoHeader == [scheme |-> "", spaces |-> 0, cred |-> NoJwt, extra |-> FALSE]

Bearer(tok) == [scheme |-> "Bearer", spaces |-> 1, cred |-> tok, extra |-> FALSE]

\* a token whose payload was edited to role admin: the signature no longer fits
Forge(tok) == [tok EXCEPT !.role = "admin", !.sig = "forged"]

\* authHeader.startsWith('Bearer ')
StartsWithBearer(h) == h.scheme = "Bearer" /\ h.spaces >= 1

\* authHeader.split(' ')[1]
SecondField(h) == IF h.spaces = 1 THEN h.cred ELSE NoJwt

\* authenticateJWT: the status and message it answers with (0: next())
AuthenticateJWT(h, t) ==
    IF h = NoHeader \/ ~StartsWithBearer(h)
    THEN [status |-> 401, message |-> "Missing or invalid Authorization header"]
    ELSE IF ~JwtVerify(SecondField(h), t)
    THEN [status |-> 401, message |-> "Token validation error"]
    ELSE [status |-> 0, message |-> ""]

\* a check that would let every verified claim pass
RequireAuthOnly(auth) ==
    IF auth = NoJwt THEN [status |-> 401, message |-> "Unauthorized"]
    ELSE [status |-> 0, message |-> ""]

\* a check that would look the role up in the store
RequireAdminFromStore(auth) ==
    IF auth = NoJwt THEN [status |-> 401, message |-> "Unauthorized"]
    ELSE IF users[auth.email].role # "admin"
    THEN [status |-> 403, message |-> "Admins only"]
    ELSE [status |-> 0, message |-> ""]

\* requireAdmin on req.auth, the verified claims
RequireAdmin(auth) ==
    IF auth = NoJwt THEN [status |-> 401, message |-> "Unauthorized"]
    ELSE IF auth.role # "admin" THEN [status |-> 403, message |-> "Admins only"]
    ELSE [status |-> 0, message |-> ""]

-----------------------------------------------------------------------------
(* Requests and responses *)

\* the locals of a handler that is waiting at an await
NoCtx == [acct |-> NoKey, query |-> NoKey, token |-> NoToken, password |-> "",
          salt |-> "", rexp |-> NoDate, dirtyToken |-> FALSE,
          dirtyExpires |-> FALSE, at |-> 0, fault |-> "none",
          header |-> NoHeader, body |-> NoBody, before |-> NoTrips]

\* a response (status, message, jwt, devResetUrl, error) with the facts of
\* the request it answers: the operation, whether a required field was
\* missing, the account the handler found, the reset token and password of
\* the request, the time of reset's lookup, what sent forgot into its catch
\* block, how the rollback ended and the digest its save removed from the
\* store, the plaintext token the handler wrote to the console, and whether
\* the token a Reset redeemed had been redeemed before; for a trip write, the Authorization header, how
\* far the middleware chain got, the trips collection as the request
\* found it and the code of the trip to create; for a search, its facts
NoOut == [op |-> "none", answered |-> FALSE, status |-> 0, message |-> "",
          jwt |-> NoJwt, devResetUrl |-> NoToken, error |-> "",
          missing |-> FALSE, acct |-> NoKey, token |-> NoToken,
          password |-> "", at |-> 0, fault |-> "none", rollback |-> "none",
          wiped |-> NoDigest, logged |-> NoToken, again |-> FALSE,
          header |-> NoHeader,
          stage |-> "none", before |-> NoTrips, code |-> "",
          search |-> NoSearch]

Json(op, status, message) ==
    [NoOut EXCEPT !.op = op, !.answered = TRUE, !.status = status,
                  !.message = message]

GenericOk == "If that email exists, we'll send instructions to reset your password."

InvalidReset == "Invalid or expired reset token"

Idle(p) == pc[p] = "idle"

\* res.status(..).json(..): the request of slot p is answered
Respond(p, r) ==
    /\ pc' = [pc EXCEPT ![p] = "idle"]
    /\ ctx' = [ctx EXCEPT ![p] = NoCtx]
    /\ out' = r

\* the handler's promise rejects outside any try: nothing is ever sent
NoResponse(p, r) ==
    /\ pc' = [pc EXCEPT ![p] = "idle"]
    /\ ctx' = [ctx EXCEPT ![p] = NoCtx]
    /\ out' = [r EXCEPT !.answered = FALSE, !.status = 0, !.message = ""]

\* the handler of slot p waits at the await named by label
Await(p, label, locals) ==
    /\ pc' = [pc EXCEPT ![p] = label]
    /\ ctx' = [ctx EXCEPT ![p] = locals]

-----------------------------------------------------------------------------
\* the state of a fresh deployment, whatever NODE_ENV is
Fresh ==
    /\ users = [k \in Keys |-> IF k = AdminKey THEN AdminUser ELSE NoUser]
    /\ trips = NoTrips
    /\ now = 0
    /\ ticks = 0
    /\ nextTok = 0
    /\ pc = [p \in Procs |-> "idle"]
    /\ ctx = [p \in Procs |-> NoCtx]
    /\ out = NoOut
    /\ held = NoJwt
    /\ issuedAt = [i \in TokenIds |-> NoDate]
    /\ issuedFor = [i \in TokenIds |-> NoKey]
    /\ redeemed = {}

\* a development deployment: forgot adds devResetUrl to its success response
Init == Fresh /\ prod = FALSE /\ tripDocs = NoTripDocs /\ db = Connected

\* a deployment in either environment
InitAnyEnv ==
    Fresh /\ prod \in BOOLEAN /\ tripDocs = NoTripDocs /\ db = Connected

-----------------------------------------------------------------------------
(* POST /register *)

\* a register that would not look at the name
RegisterAnyName(p, name, email, password, salt, storeOk) ==
    /\ Idle(p)
    /\ IF email = <<>> \/ password = ""
       THEN /\ Respond(p, [Json("register", 400, "All fields required") EXCEPT
                              !.missing = TRUE])
            /\ UNCHANGED users
       ELSE LET user == SetPassword(NewUser(name, email), password, salt)
                k == user.email
            IN  IF storeOk /\ ~users[k].exists
                THEN /\ users' = [users EXCEPT ![k] = user]
                     /\ Respond(p, [Json("register", 200, "") EXCEPT
                                       !.jwt = GenerateJWT(user, now),
                                       !.acct = k, !.password = password])
                ELSE /\ Respond(p, [Json("register", 400, "Registration error") EXCEPT
                                       !.error = IF storeOk THEN "E11000 duplicate key"
                                                            ELSE "store error",
                                       !.acct = k])
                     /\ UNCHANGED users
    /\ UNCHANGED <<trips, now, ticks, nextTok, prod, tripDocs, db, held, issuedAt, issuedFor, redeemed>>

\* a register over a collection without the unique index on email
RegisterNoIndex(p, name, email, password, salt, storeOk) ==
    /\ Idle(p)
    /\ LET user == SetPassword(NewUser(name, email), password, salt)
       IN  /\ users' = [users EXCEPT ![user.email] = user]
           /\ Respond(p, [Json("register", 200, "") EXCEPT
                             !.jwt = GenerateJWT(user, now),
                             !.acct = user.email, !.password = password])
    /\ UNCHANGED <<trips, now, ticks, nextTok, prod, tripDocs, db, held, issuedAt, issuedFor, redeemed>>

Register(p, name, email, password, salt, storeOk) ==
    /\ Idle(p)
    /\ IF name = "" \/ email = <<>> \/ password = ""
       THEN /\ Respond(p, [Json("register", 400, "All fields required") EXCEPT
                              !.missing = TRUE])
            /\ UNCHANGED users
       ELSE IF Pbkdf2Throws(password, salt)
       THEN \* setPassword throws before the try
            /\ NoResponse(p, [Json("register", 0, "") EXCEPT
                                 !.fault = "hash", !.password = password])
            /\ UNCHANGED users
       ELSE LET user == SetPassword(NewUser(name, email), password, salt)
                k == user.email
            IN  IF storeOk /\ ~users[k].exists
                THEN \* user.save() inserts; the token is made from the document
                     /\ users' = [users EXCEPT ![k] = user]
                     /\ Respond(p, [Json("register", 200, "") EXCEPT
                                       !.jwt = GenerateJWT(user, now),
                                       !.acct = k, !.password = password])
                ELSE \* the unique index, or the store, rejects the insert
                     /\ Respond(p, [Json("register", 400, "Registration error") EXCEPT
                                       !.error = IF storeOk THEN "E11000 duplicate key"
                                                            ELSE "store error",
                                       !.acct = k])
                     /\ UNCHANGED users
    /\ UNCHANGED <<trips, now, ticks, nextTok, prod, tripDocs, db, held, issuedAt, issuedFor, redeemed>>

-----------------------------------------------------------------------------
(* POST /login, with the LocalStrategy verify callback *)

\* the verify callback: done(null, q), or done(null, false, info)
Authenticate(email, password) ==
    LET k == FindByEmail(email)
    IN  IF k = NoKey
        THEN [user |-> NoKey, info |-> "Incorrect username.", err |-> ""]
        ELSE IF Pbkdf2Throws(password, users[k].salt)
        THEN \* validPassword throws inside the try: done(err)
             [user |-> NoKey, info |-> "", err |-> "TypeError"]
        ELSE IF ~ValidPassword(users[k], password)
        THEN [user |-> NoKey, info |-> "Incorrect Password.", err |-> ""]
        ELSE [user |-> k, info |-> "", err |-> ""]

Login(p, email, password, storeOk) ==
    /\ Idle(p)
    /\ IF email = <<>> \/ password = ""
       THEN Respond(p, [Json("login", 400, "All fields required") EXCEPT
                           !.missing = TRUE])
       ELSE IF ~storeOk
       THEN \* done(err): res.status(404).json(err)
            Respond(p, [Json("login", 404, "") EXCEPT !.error = "store error"])
       ELSE LET auth == Authenticate(email, password)
            IN  IF auth.err # ""
                THEN \* if (err) return res.status(404).json(err)
                     Respond(p, [Json("login", 404, "") EXCEPT
                                    !.error = auth.err,
                                    !.acct = FindByEmail(email),
                                    !.password = password])
                ELSE IF auth.user = NoKey
                THEN Respond(p, [Json("login", 401, auth.info) EXCEPT
                                    !.acct = FindByEmail(email),
                                    !.password = password])
                ELSE Respond(p, [Json("login", 200, "") EXCEPT
                                    !.jwt = GenerateJWT(users[auth.user], now),
                                    !.acct = auth.user, !.password = password])
    /\ UNCHANGED <<users, trips, now, ticks, nextTok, prod, tripDocs, db, held, issuedAt, issuedFor, redeemed>>

-----------------------------------------------------------------------------
(* POST /auth/forgot *)

\* the neutral response, with what the request did
\* a response that would tell the caller that no account has the email
NeutralRevealing(c, rollback) ==
    IF c.acct = NoKey
    THEN Json("forgot", 404, "No account with that email")
    ELSE [Json("forgot", 200, GenericOk) EXCEPT
             !.acct = c.acct, !.token = c.token, !.fault = c.fault,
             !.rollback = rollback]

\* (console.log('[FORGOT] reset URL =', resetUrl) runs once the save of the
\* token succeeded)
Neutral(c, rollback) ==
    [Json("forgot", 200, GenericOk) EXCEPT
        !.acct = c.acct, !.token = c.token, !.fault = c.fault,
        !.rollback = rollback,
        !.logged = IF c.fault = "save" THEN NoToken ELSE c.token]

\* a success path that would add devResetUrl in every environment
ForgotOkAlwaysUrl(c) == [Neutral(c, "none") EXCEPT !.devResetUrl = c.token]

\* the response of the success path: { ...genericOk }, plus devResetUrl
\* outside production
ForgotOk(c) ==
    [Neutral(c, "none") EXCEPT !.devResetUrl = IF prod THEN NoToken ELSE c.token]

\* a save that would write the token paths and drop the stored hash
SaveResetFieldsDropHash(u, tokenHash, expires) ==
    [u EXCEPT !.resetPasswordToken = tokenHash, !.resetPasswordExpires = expires,
              !.hash = NoHash]

\* user.save() of a fetched document writes the modified paths only
SaveResetFields(u, tokenHash, expires) ==
    [u EXCEPT !.resetPasswordToken = tokenHash, !.resetPasswordExpires = expires]

\* the check of the email, the first findOne and createPasswordResetToken
\* (limit: how many tokens the run may draw)
ForgotFind(p, email, storeOk, limit) ==
    /\ Idle(p)
    /\ IF email = <<>>
       THEN /\ Respond(p, [Json("forgot", 400, "Email required") EXCEPT !.missing = TRUE])
            /\ UNCHANGED <<nextTok, issuedAt, issuedFor>>
       ELSE IF ~storeOk
       THEN \* findOne rejects: the catch block runs
            /\ Await(p, "f_rbfind", [NoCtx EXCEPT !.query = NormalizeEmail(email),
                                                  !.fault = "find"])
            /\ out' = NoOut
            /\ UNCHANGED <<nextTok, issuedAt, issuedFor>>
       ELSE IF FindByEmail(email) = NoKey
       THEN /\ Respond(p, Neutral(NoCtx, "none"))
            /\ UNCHANGED <<nextTok, issuedAt, issuedFor>>
       ELSE LET k == FindByEmail(email)
                tok == PlainToken(nextTok + 1)
                user == CreatePasswordResetToken(users[k], tok, now)
            IN  /\ nextTok < limit
                /\ nextTok' = nextTok + 1
                /\ issuedAt' = [issuedAt EXCEPT ![nextTok + 1] = now]
                /\ issuedFor' = [issuedFor EXCEPT ![nextTok + 1] = k]
                    /\ Await(p, "f_save", [NoCtx EXCEPT
                                  !.query = NormalizeEmail(email), !.acct = k,
                                  !.token = tok, !.rexp = user.resetPasswordExpires,
                                  !.dirtyExpires = (user.resetPasswordExpires #
                                                    users[k].resetPasswordExpires)])
                /\ out' = NoOut
    /\ UNCHANGED <<users, trips, now, ticks, prod, tripDocs, db, held, redeemed>>

\* await user.save({ validateBeforeSave: false }): the digest is a new value
\* and always written; the expiry is written when the document's value
\* changed, that is unless it equals the date findOne had read
ForgotSave(p, storeOk) ==
    /\ pc[p] = "f_save"
    /\ IF storeOk
       THEN /\ users' = [users EXCEPT ![ctx[p].acct] =
                            SaveResetFields(@, Sha256(ctx[p].token),
                                IF ctx[p].dirtyExpires THEN ctx[p].rexp
                                ELSE @.resetPasswordExpires)]
            /\ Await(p, "f_mail", [ctx[p] EXCEPT !.rexp = NoDate,
                                                 !.dirtyExpires = FALSE])
       ELSE /\ Await(p, "f_rbfind", [ctx[p] EXCEPT !.rexp = NoDate,
                                                   !.dirtyExpires = FALSE,
                                                   !.fault = "save"])
            /\ UNCHANGED users
    /\ UNCHANGED <<trips, now, ticks, nextTok, prod, tripDocs, db, out, held, issuedAt, issuedFor, redeemed>>

\* await transporter.sendMail(..), then the response of the success path
ForgotMail(p, mailOk) ==
    /\ pc[p] = "f_mail"
    /\ IF mailOk
       THEN Respond(p, ForgotOk(ctx[p]))
       ELSE /\ Await(p, "f_rbfind", [ctx[p] EXCEPT !.fault = "mail"])
            /\ UNCHANGED out
    /\ UNCHANGED <<users, trips, now, ticks, nextTok, prod, tripDocs, db, held, issuedAt, issuedFor, redeemed>>

\* a catch block that would let the failure of its own findOne reach the caller
ForgotRollbackFindSurfacing(p, storeOk) ==
    /\ pc[p] = "f_rbfind"
    /\ Respond(p, [Json("forgot", 500, "Internal error") EXCEPT
                      !.fault = ctx[p].fault, !.rollback = "failed"])
    /\ UNCHANGED <<users, trips, now, ticks, nextTok, prod, tripDocs, db, held, issuedAt, issuedFor, redeemed>>

\* the catch block: findOne again, and the two assignments of undefined (a
\* path that is already undefined is not marked modified)
ForgotRollbackFind(p, storeOk) ==
    /\ pc[p] = "f_rbfind"
    /\ IF ~storeOk
       THEN Respond(p, Neutral(ctx[p], "failed"))
       ELSE IF FindByEmail(ctx[p].query) = NoKey
       THEN Respond(p, Neutral(ctx[p], "nouser"))
       ELSE LET u == users[FindByEmail(ctx[p].query)]
            IN  /\ Await(p, "f_rbsave", [ctx[p] EXCEPT
                              !.acct = u.email,
                              !.dirtyToken = (u.resetPasswordToken # NoDigest),
                              !.dirtyExpires = (u.resetPasswordExpires # NoDate)])
                /\ UNCHANGED out
    /\ UNCHANGED <<users, trips, now, ticks, nextTok, prod, tripDocs, db, held, issuedAt, issuedFor, redeemed>>

\* a catch block that would answer without clearing the token paths
ForgotRollbackSaveNoClear(p, storeOk) ==
    /\ pc[p] = "f_rbsave"
    /\ Respond(p, Neutral(ctx[p], IF storeOk THEN "saved" ELSE "failed"))
    /\ UNCHANGED <<users, trips, now, ticks, nextTok, prod, tripDocs, db, held, issuedAt, issuedFor, redeemed>>

\* await u.save({ validateBeforeSave: false }) of the catch block, then the
\* neutral response
ForgotRollbackSave(p, storeOk) ==
    /\ pc[p] = "f_rbsave"
    /\ IF storeOk
       THEN /\ users' = [users EXCEPT ![ctx[p].acct] = SaveResetFields(@,
                            IF ctx[p].dirtyToken THEN NoDigest ELSE @.resetPasswordToken,
                            IF ctx[p].dirtyExpires THEN NoDate ELSE @.resetPasswordExpires)]
            /\ Respond(p, [Neutral(ctx[p], "saved") EXCEPT
                              !.wiped = IF ctx[p].dirtyToken
                                        THEN users[ctx[p].acct].resetPasswordToken
                                        ELSE NoDigest])
       ELSE /\ Respond(p, Neutral(ctx[p], "failed"))
            /\ UNCHANGED users
    /\ UNCHANGED <<trips, now, ticks, nextTok, prod, tripDocs, db, held, issuedAt, issuedFor, redeemed>>

-----------------------------------------------------------------------------
(* POST /auth/reset *)

\* a lookup that would match any account holding a token that has not expired
ResetMatchesAnyToken(tokenHash, t) ==
    { k \in Keys : /\ users[k].resetPasswordToken # NoDigest
                   /\ users[k].resetPasswordExpires > t }

\* the accounts reset's findOne can return
ResetMatches(tokenHash, t) == { k \in Keys : MatchesReset(users[k], tokenHash, t) }

\* a reset that would set the password and leave the token paths as they are
ResetDocumentKeepToken(u, password, salt) == SetPassword(u, password, salt)

\* a reset that would unset the token paths and leave the password as it is
ResetDocumentClearOnly(u, password, salt) == SaveResetFields(u, NoDigest, NoDate)

\* the document reset saves: the new hash and salt, both token paths unset
ResetDocument(u, password, salt) ==
    SaveResetFields(SetPassword(u, password, salt), NoDigest, NoDate)

\* a reset that would look at the token before it looks at the password
ResetFindTokenFirst(p, bodyToken, pathToken, password, salt, storeOk) ==
    LET rawToken == RawToken(bodyToken, pathToken)
        o == [Json("reset", 400, InvalidReset) EXCEPT !.token = rawToken,
                                                   !.at = now]
    IN  /\ Idle(p)
        /\ IF rawToken = NoToken \/ rawToken.len < TokenLen
           THEN Respond(p, [o EXCEPT !.missing = (password = "")])
           ELSE IF password = ""
           THEN Respond(p, [o EXCEPT !.message = "New password required",
                                     !.missing = TRUE])
           ELSE IF ~storeOk
           THEN NoResponse(p, [o EXCEPT !.fault = "find"])
           ELSE IF ResetMatches(Sha256(rawToken), now) = {}
           THEN Respond(p, o)
           ELSE /\ Await(p, "s_save", [NoCtx EXCEPT
                         !.acct = CHOOSE k \in ResetMatches(Sha256(rawToken), now) : TRUE,
                         !.token = rawToken, !.password = password,
                         !.salt = salt, !.at = now])
                /\ out' = NoOut
        /\ UNCHANGED <<users, trips, now, ticks, nextTok, prod, tripDocs, db, held, issuedAt, issuedFor, redeemed>>

\* the checks of the request, the findOne and setPassword
ResetFind(p, bodyToken, pathToken, password, salt, storeOk) ==
    LET rawToken == RawToken(bodyToken, pathToken)
        \* console.log('[RESET] raw token =', rawToken, ..) comes first
        o == [Json("reset", 400, InvalidReset) EXCEPT !.token = rawToken,
                                                   !.at = now,
                                                   !.logged = rawToken]
    IN  /\ Idle(p)
        /\ IF password = ""
           THEN Respond(p, [o EXCEPT !.message = "New password required",
                                     !.missing = TRUE])
           ELSE IF rawToken = NoToken \/ rawToken.len < TokenLen
           THEN Respond(p, o)
           ELSE IF ~storeOk
           THEN NoResponse(p, [o EXCEPT !.fault = "find"])
           ELSE IF ResetMatches(Sha256(rawToken), now) = {}
           THEN Respond(p, o)
           ELSE IF Pbkdf2Throws(password, salt)
           THEN \* user.setPassword(password) throws after the lookup
                NoResponse(p, [o EXCEPT !.fault = "hash", !.password = password])
           ELSE /\ Await(p, "s_save", [NoCtx EXCEPT
                         !.acct = CHOOSE k \in ResetMatches(Sha256(rawToken), now) : TRUE,
                         !.token = rawToken, !.password = password,
                         !.salt = salt, !.at = now])
                /\ out' = NoOut
        /\ UNCHANGED <<users, trips, now, ticks, nextTok, prod, tripDocs, db, held, issuedAt, issuedFor, redeemed>>

\* POST /api/auth/reset with or without a further path segment: the router
\* mounts reset on '/auth/reset' only, a longer path matches no route and
\* falls through to the JSON 404 of app.js
PostAuthReset(p, bodyToken, pathToken, password, salt, storeOk) ==
    IF pathToken # NoToken
    THEN /\ Idle(p)
         /\ Respond(p, [Json("notfound", 404, "API route not found") EXCEPT
                           !.token = RawToken(bodyToken, pathToken),
                           !.password = password, !.at = now])
         /\ UNCHANGED <<users, trips, now, ticks, nextTok, prod, tripDocs, db, held, issuedAt, issuedFor, redeemed>>
    ELSE ResetFind(p, bodyToken, pathToken, password, salt, storeOk)

\* await user.save(), then the confirmation
ResetSave(p, storeOk) ==
    LET c == ctx[p]
        o == [Json("reset", 200, "Password updated. You can now log in.") EXCEPT
                 !.acct = c.acct, !.token = c.token, !.password = c.password,
                 !.at = c.at, !.again = (c.token.id \in redeemed),
                 !.logged = c.token]
    IN  /\ pc[p] = "s_save"
        /\ IF storeOk
           THEN /\ users' = [users EXCEPT ![c.acct] =
                                ResetDocument(@, c.password, c.salt)]
                /\ redeemed' = redeemed \cup {c.token.id}
                /\ Respond(p, o)
           ELSE /\ NoResponse(p, [o EXCEPT !.fault = "save"])
                /\ UNCHANGED <<users, redeemed>>
        /\ UNCHANGED <<trips, now, ticks, nextTok, prod, tripDocs, db, held, issuedAt, issuedFor>>

-----------------------------------------------------------------------------
(* The gated trip writes: POST /trips and PUT /trips/:tripCode *)

\* the middleware chain in route order: the stage that answers, with its
\* status and message (stage "handler", status 0: the controller is called)
Chain(h, b, t) ==
    LET a == AuthenticateJWT(h, t)
        r == RequireAdmin(SecondField(h))
        v == RequireTripBody(b)
    IN  IF a.status # 0 THEN [stage |-> "auth"] @@ a
        ELSE IF r.status # 0 THEN [stage |-> "admin"] @@ r
        ELSE IF v # "" THEN [stage |-> "validate", status |-> 400, message |-> v]
        ELSE [stage |-> "handler", status |-> 0, message |-> ""]

TripOut(op, h, c, status, message) ==
    [Json(op, status, message) EXCEPT !.header = h, !.stage = c.stage,
                                      !.at = now, !.before = trips]

\* tripsAddTrip up to its save: the chain, then the lookup by code
TripsAddTrip(p, h, b, storeOk) ==
    /\ Idle(p)
    /\ LET c == Chain(h, b, now)
       IN  IF c.stage # "handler"
           THEN Respond(p, TripOut("tripsAddTrip", h, c, c.status, c.message))
           ELSE IF ~storeOk
           THEN Respond(p, [TripOut("tripsAddTrip", h, c, 400, "store error")
                               EXCEPT !.fault = "find", !.code = b.code])
           ELSE IF trips[b.code] # <<>>
           THEN Respond(p, [TripOut("tripsAddTrip", h, c, 409,
                                    "Trip code already exists")
                               EXCEPT !.code = b.code])
           ELSE /\ Await(p, "t_save", [NoCtx EXCEPT !.header = h, !.body = b,
                                                    !.at = now,
                                                    !.before = trips])
                /\ out' = NoOut
    /\ UNCHANGED <<users, trips, now, ticks, nextTok, prod, tripDocs, db, held, issuedAt, issuedFor, redeemed>>

\* a save on a collection that would have no unique index on code
TripsAddSaveNoIndex(p, storeOk) ==
    /\ pc[p] = "t_save"
    /\ LET c == ctx[p]
           o == [Json("tripsAddTrip", 201, "") EXCEPT
                    !.header = c.header, !.stage = "handler", !.at = c.at,
                    !.before = c.before, !.code = c.body.code]
       IN  IF ~storeOk
           THEN /\ Respond(p, [o EXCEPT !.status = 400,
                                        !.message = "store error",
                                        !.fault = "save"])
                /\ UNCHANGED trips
           ELSE /\ trips' = [trips EXCEPT ![c.body.code] = Append(@, c.body.name)]
                /\ Respond(p, o)
    /\ UNCHANGED <<users, now, ticks, nextTok, prod, tripDocs, db, held, issuedAt, issuedFor, redeemed>>

\* new Trip(body).save(): the unique index on code decides
TripsAddSave(p, storeOk) ==
    /\ pc[p] = "t_save"
    /\ LET c == ctx[p]
           o == [Json("tripsAddTrip", 201, "") EXCEPT
                    !.header = c.header, !.stage = "handler", !.at = c.at,
                    !.before = c.before, !.code = c.body.code]
       IN  IF ~storeOk
           THEN /\ Respond(p, [o EXCEPT !.status = 400,
                                        !.message = "store error",
                                        !.fault = "save"])
                /\ UNCHANGED trips
           ELSE IF trips[c.body.code] # <<>>
           THEN /\ Respond(p, [o EXCEPT !.status = 409,
                                        !.message = "Duplicate key"])
                /\ UNCHANGED trips
           ELSE /\ trips' = [trips EXCEPT ![c.body.code] = Append(@, c.body.name)]
                /\ Respond(p, o)
    /\ UNCHANGED <<users, now, ticks, nextTok, prod, tripDocs, db, held, issuedAt, issuedFor, redeemed>>

\* tripsUpdateTrip: the chain, then findOneAndUpdate by the path's code
TripsUpdateTrip(p, h, code, b, storeOk) ==
    /\ Idle(p)
    /\ LET c == Chain(h, b, now)
       IN  IF c.stage # "handler"
           THEN /\ Respond(p, TripOut("tripsUpdateTrip", h, c, c.status,
                                      c.message))
                /\ UNCHANGED trips
           ELSE IF ~storeOk
           THEN /\ Respond(p, [TripOut("tripsUpdateTrip", h, c, 400,
                                       "store error") EXCEPT !.fault = "save"])
                /\ UNCHANGED trips
           ELSE IF trips[code] = <<>>
           THEN /\ Respond(p, TripOut("tripsUpdateTrip", h, c, 404,
                                      "Trip not found"))
                /\ UNCHANGED trips
           ELSE /\ trips' = [trips EXCEPT ![code] = [@ EXCEPT ![1] = b.name]]
                /\ Respond(p, TripOut("tripsUpdateTrip", h, c, 200, ""))
    /\ UNCHANGED <<users, now, ticks, nextTok, prod, tripDocs, db, held, issuedAt, issuedFor, redeemed>>

\* tripsSearchPaginated (seen, walk: the pages of the walk so far)
TripsSearchPaginated(p, resort, limit, cursor, seen, walk, storeOk) ==
    LET o == [Json("tripsSearch", 200, "") EXCEPT
                 !.search = [NoSearch EXCEPT !.resort = resort, !.limit = limit,
                                              !.cursor = cursor, !.walk = walk]]
        cursorId == DecodeCursor(cursor)
        query == { id \in BuildTripQuery(resort) : cursor # NoCursor => id > cursorId }
        docs == Take(SortById(query), Limit(limit) + 1)
        more == Len(docs) > Limit(limit)
        page == Take(docs, Limit(limit))
    IN  /\ Idle(p)
        /\ IF cursor # NoCursor /\ cursorId = NoId
           THEN Respond(p, [o EXCEPT !.status = 400,
                                     !.message = "Invalid cursor token"])
           ELSE IF ~storeOk
           THEN Respond(p, [o EXCEPT !.status = 500, !.message = "store error",
                                     !.fault = "find"])
           ELSE Respond(p, [o EXCEPT
                    !.search.page = page,
                    !.search.nextCursor =
                        IF more THEN EncodeCursor(docs[Limit(limit)]) ELSE NoCursor,
                    !.search.seen = seen \o page])
        /\ UNCHANGED <<users, trips, now, ticks, nextTok, prod, tripDocs, db, held,
                       issuedAt, issuedFor, redeemed>>

\* the client keeps the session token of the response it just received
Keep ==
    /\ out.jwt # NoJwt
    /\ held # out.jwt
    /\ held' = out.jwt
    /\ UNCHANGED <<users, trips, now, ticks, nextTok, prod, tripDocs, db, pc, ctx, out,
                   issuedAt, issuedFor, redeemed>>

-----------------------------------------------------------------------------
(* The clock *)

TickSteps == { ResetTTL - 1, ResetTTL }

Tick(d) ==
    /\ ticks < MaxTicks
    /\ now' = now + d
    /\ ticks' = ticks + 1
    /\ UNCHANGED <<users, trips, nextTok, prod, tripDocs, db, pc, ctx, out, held, issuedAt, issuedFor, redeemed>>

-----------------------------------------------------------------------------
(* The system *)

\* the requests clients send: every required field present, or one missing
RegisterInputs ==
    { [name |-> n, email |-> e, password |-> w] :
        n \in Names \ {""}, e \in EmailInputs \ {<<>>}, w \in Passwords \ {""} }
    \cup { [name |-> "", email |-> <<"a">>, password |-> "pw1"],
           [name |-> "Ana", email |-> <<>>, password |-> "pw1"],
           [name |-> "Ana", email |-> <<"a">>, password |-> ""] }

LoginInputs ==
    { [email |-> e, password |-> w] :
        e \in EmailInputs \ {<<>>}, w \in Passwords \ {""} }
    \cup { [email |-> <<>>, password |-> "pw1"],
           [email |-> <<"a">>, password |-> ""] }

ResetRequests ==
    { [tokens |-> <<t, NoToken>>, password |-> w] :
        t \in { PlainToken(i) : i \in 1..MaxTokens }, w \in Passwords \ {""} }
    \cup { [tokens |-> t, password |-> "pw1"] : t \in ResetInputs }
    \cup { [tokens |-> <<t, NoToken>>, password |-> ""] :
                t \in { PlainToken(1), NoToken } }

\* the salts randomBytes(16) returns in the runs explored here
SaltDraws == { "s1" }

\* slots are interchangeable: a request is served by the first free one
FirstFree(p) == Idle(p) /\ \A q \in Procs : Idle(q) => ~Before(q, p)

\* a client sends a request, which slot p serves
Request(p) ==
    \/ \E r \in RegisterInputs, salt \in SaltDraws, storeOk \in BOOLEAN :
            Register(p, r.name, r.email, r.password, salt, storeOk)
    \/ \E r \in LoginInputs, storeOk \in BOOLEAN :
            Login(p, r.email, r.password, storeOk)
    \/ \E email \in EmailInputs, storeOk \in BOOLEAN :
            ForgotFind(p, email, storeOk, MaxTokens)
    \/ \E r \in ResetRequests, salt \in SaltDraws, storeOk \in BOOLEAN :
            PostAuthReset(p, r.tokens[1], r.tokens[2], r.password, salt, storeOk)

\* the request of slot p goes on after an await
Continue(p) ==
    \/ \E storeOk \in BOOLEAN : ForgotSave(p, storeOk)
    \/ \E mailOk \in BOOLEAN : ForgotMail(p, mailOk)
    \/ \E storeOk \in BOOLEAN : ForgotRollbackFind(p, storeOk)
    \/ \E storeOk \in BOOLEAN : ForgotRollbackSave(p, storeOk)
    \/ \E storeOk \in BOOLEAN : ResetSave(p, storeOk)

Next ==
    \/ \E p \in Procs : FirstFree(p) /\ Request(p)
    \/ \E p \in Procs : Continue(p)
    \/ \E d \in TickSteps : Tick(d)

\* requests in flight together, in any interleaving of their steps
Spec == Init /\ [][Next]_vars

\* one request at a time: a request is sent when the one before is answered
AllIdle == \A p \in Procs : Idle(p)

NextSeq ==
    \/ \E p \in Procs : AllIdle /\ FirstFree(p) /\ Request(p)
    \/ \E p \in Procs : Continue(p)
    \/ \E d \in TickSteps : Tick(d)

SpecSeq == Init /\ [][NextSeq]_vars

\* the password-reset requests, one at a time, in either environment
ForgotRequest(p) ==
    \/ \E r \in RegisterInputs, salt \in SaltDraws :
            Register(p, r.name, r.email, r.password, salt, TRUE)
    \/ \E email \in EmailInputs, storeOk \in BOOLEAN :
            ForgotFind(p, email, storeOk, MaxTokens)
    \/ \E r \in ResetRequests, salt \in SaltDraws, storeOk \in BOOLEAN :
            PostAuthReset(p, r.tokens[1], r.tokens[2], r.password, salt, storeOk)

NextForgot ==
    \/ \E p \in Procs : AllIdle /\ FirstFree(p) /\ ForgotRequest(p)
    \/ \E p \in Procs : Continue(p)
    \/ \E d \in TickSteps : Tick(d)

SpecForgot == InitAnyEnv /\ [][NextForgot]_vars

-----------------------------------------------------------------------------
(* The gate: sessions are opened, kept, presented on trip writes, and expire *)

SessionSteps == { SessionTTL * 1000 - 1, SessionTTL * 1000 }

GateSessions ==
    { r \in LoginInputs : r.password = "pw1" /\ r.email \in { <<"a">>, <<"r">> } }

\* the headers a client builds around the token it holds
GateHeaders(tok) ==
    { NoHeader, Bearer(tok), Bearer(Forge(tok)),
      [Bearer(tok) EXCEPT !.spaces = 0],
      [Bearer(tok) EXCEPT !.spaces = 2],
      [Bearer(tok) EXCEPT !.extra = TRUE],
      [Bearer(tok) EXCEPT !.scheme = "bearer"],
      [Bearer(tok) EXCEPT !.scheme = "Basic"] }

GateRequest(p) ==
    \/ \E r \in GateSessions, salt \in SaltDraws :
            Register(p, "Ana", r.email, r.password, salt, TRUE)
    \/ \E r \in GateSessions : Login(p, r.email, r.password, TRUE)
    \/ \E h \in GateHeaders(held), b \in TripBodies, storeOk \in BOOLEAN :
            /\ ~storeOk => Chain(h, b, now).stage = "handler"
            /\ TripsAddTrip(p, h, b, storeOk)
    \/ \E h \in GateHeaders(held), code \in TripCodes, b \in TripBodies,
          storeOk \in BOOLEAN :
            /\ ~storeOk => Chain(h, b, now).stage = "handler"
            /\ TripsUpdateTrip(p, h, code, b, storeOk)

NextGate ==
    \/ \E p \in Procs : AllIdle /\ FirstFree(p) /\ GateRequest(p)
    \/ \E p \in Procs, storeOk \in BOOLEAN : TripsAddSave(p, storeOk)
    \/ Keep
    \/ \E d \in SessionSteps : Tick(d)

SpecGate == Init /\ [][NextGate]_vars

-----------------------------------------------------------------------------
(* Races: registrations of one email, Forgots and Resets for one account,   *)
(* in flight together                                                        *)

RaceEmails == { <<"a">>, <<" ", "A">> }

RaceRequest(p) ==
    \/ \E e \in RaceEmails, salt \in SaltDraws, storeOk \in BOOLEAN :
            Register(p, "Ana", e, "pw1", salt, storeOk)
    \/ \E storeOk \in BOOLEAN : ForgotFind(p, AdminKey, storeOk, MaxTokens + 1)
    \/ \E i \in TokenIds, salt \in SaltDraws :
            ResetFind(p, PlainToken(i), NoToken, "pw2", salt, TRUE)

NextRace ==
    \/ \E p \in Procs : FirstFree(p) /\ RaceRequest(p)
    \/ \E p \in Procs : Continue(p)

SpecRace == Init /\ [][NextRace]_vars

-----------------------------------------------------------------------------
(* Sessions over their lifetime: a token is kept and presented while the     *)
(* clock runs and the account behind it changes                              *)

LifetimeSteps ==
    { 1000, SessionTTL * 1000 - 1, SessionTTL * 1000, SessionTTL * 1000 + 1000 }

\* an administrator changes the role of an account directly in the store
SetRole(k, role) ==
    /\ users[k].exists
    /\ users[k].role # role
    /\ users' = [users EXCEPT ![k].role = role]
    /\ UNCHANGED <<trips, now, ticks, nextTok, prod, tripDocs, db, pc, ctx, out, held,
                   issuedAt, issuedFor, redeemed>>

SessionRequest(p) ==
    \/ Login(p, AdminKey, "pw1", TRUE)
    \/ ForgotFind(p, AdminKey, TRUE, MaxTokens)
    \/ \E i \in 1..MaxTokens, salt \in SaltDraws :
            ResetFind(p, PlainToken(i), NoToken, "pw2", salt, TRUE)
    \/ TripsAddTrip(p, Bearer(held),
                    [code |-> "T1", name |-> "n1", start |-> "2026-01-01"], TRUE)

NextSession ==
    \/ \E p \in Procs : AllIdle /\ FirstFree(p) /\ SessionRequest(p)
    \/ \E p \in Procs : Continue(p)
    \/ \E p \in Procs, storeOk \in BOOLEAN : TripsAddSave(p, storeOk)
    \/ Keep
    \/ \E role \in { "user", "admin" } : SetRole(AdminKey, role)
    \/ \E d \in LifetimeSteps : Tick(d)

SpecSession == Init /\ [][NextSession]_vars

\* the requests that set or verify a password, one at a time
HashRequest(p) ==
    \/ \E w \in HashPasswords \cup { NumberPassword }, salt \in SaltDraws :
            Register(p, "Ana", <<"a">>, w, salt, TRUE)
    \/ \E e \in { <<"a">>, AdminKey }, w \in HashPasswords \cup { NumberPassword } :
            Login(p, e, w, TRUE)
    \/ ForgotFind(p, AdminKey, TRUE, MaxTokens)
    \/ \E i \in 1..MaxTokens, w \in HashPasswords \cup { NumberPassword },
          salt \in SaltDraws :
            PostAuthReset(p, PlainToken(i), NoToken, w, salt, TRUE)

NextHash ==
    \/ \E p \in Procs : AllIdle /\ FirstFree(p) /\ HashRequest(p)
    \/ \E p \in Procs : Continue(p)

SpecHash == Init /\ [][NextHash]_vars

\* the values crypto.randomBytes(16) returns, in the order it returns them:
\* a generator that never repeats a value
SaltPool == << "s1", "s2", "s3", "s4" >>

SaltRank(salt) ==
    IF salt = "" THEN 0 ELSE CHOOSE i \in DOMAIN SaltPool : SaltPool[i] = salt

\* the values randomBytes(16) can return next: those it has not returned for
\* any salt in the store
FreshSalts ==
    { SaltPool[i] : i \in { j \in DOMAIN SaltPool :
          \A k \in Keys : users[k].exists => j > SaltRank(users[k].salt) } }

\* the requests that set a password, one at a time, with salts that randomBytes
\* has not returned before
SaltRequest(p) ==
    \/ \E salt \in FreshSalts, storeOk \in BOOLEAN :
            Register(p, "Ana", <<"a">>, "pw1", salt, storeOk)
    \/ \E e \in { <<"a">>, AdminKey }, w \in { "pw1", "pw2" } : Login(p, e, w, TRUE)
    \/ \E e \in { <<"a">>, AdminKey } : ForgotFind(p, e, TRUE, MaxTokens)
    \/ \E i \in 1..MaxTokens, w \in { "pw1", "pw2" }, salt \in FreshSalts :
            PostAuthReset(p, PlainToken(i), NoToken, w, salt, TRUE)

NextSalt ==
    \/ \E p \in Procs : AllIdle /\ FirstFree(p) /\ SaltRequest(p)
    \/ \E p \in Procs : Continue(p)

SpecSalt == Init /\ [][NextSalt]_vars

\* the requests that name an account by email, one at a time, with the two
\* spellings of one email
Spellings == { <<"a">>, <<" ", "A">> }

EmailRequest(p) ==
    \/ \E e \in Spellings, w \in Passwords \ {""}, salt \in SaltDraws :
            Register(p, "Ana", e, w, salt, TRUE)
    \/ \E e \in Spellings \cup { AdminKey }, w \in Passwords \ {""} :
            Login(p, e, w, TRUE)
    \/ \E e \in Spellings \cup { AdminKey }, storeOk \in BOOLEAN :
            ForgotFind(p, e, storeOk, MaxTokens)
    \/ \E i \in 1..MaxTokens, salt \in SaltDraws :
            PostAuthReset(p, PlainToken(i), NoToken, "pw2", salt, TRUE)

NextEmail ==
    \/ \E p \in Procs : AllIdle /\ FirstFree(p) /\ EmailRequest(p)
    \/ \E p \in Procs : Continue(p)

SpecEmail == Init /\ [][NextEmail]_vars

-----------------------------------------------------------------------------
(* Tokens of two accounts: Forgot and Reset calls for a registered account   *)
(* and for the administrator, in flight together                             *)

BindEmails == { <<"a">>, AdminKey }

BindRequest(p) ==
    \/ \E salt \in SaltDraws : Register(p, "Ana", <<"a">>, "pw1", salt, TRUE)
    \/ \E e \in BindEmails : ForgotFind(p, e, TRUE, MaxTokens + 1)
    \/ \E i \in TokenIds, salt \in SaltDraws :
            ResetFind(p, PlainToken(i), NoToken, "pw2", salt, TRUE)

NextBind ==
    \/ \E p \in Procs : FirstFree(p) /\ BindRequest(p)
    \/ \E p \in Procs : Continue(p)

SpecBind == Init /\ [][NextBind]_vars

-----------------------------------------------------------------------------
(* Trip writes of administrators, in flight together                         *)

\* the header of a client that holds the session of the administrator
AdminHeader == Bearer(GenerateJWT(AdminUser, 0))

TripsRequest(p) ==
    \/ \E b \in TripBodies, storeOk \in BOOLEAN :
            TripsAddTrip(p, AdminHeader, b, storeOk)
    \/ \E code \in TripCodes, b \in TripBodies :
            TripsUpdateTrip(p, AdminHeader, code, b, TRUE)

NextTrips ==
    \/ \E p \in Procs : FirstFree(p) /\ TripsRequest(p)
    \/ \E p \in Procs, storeOk \in BOOLEAN : TripsAddSave(p, storeOk)

SpecTrips == Init /\ [][NextTrips]_vars

-----------------------------------------------------------------------------
(* Searches of a collection that no request writes: a client searches       *)
(* without cursor and follows nextCursor                                     *)

InitSearch ==
    /\ Fresh /\ prod = FALSE /\ db = Connected
    /\ tripDocs \in [TripIds -> Resorts \cup { NoDoc }]

SearchRequest(p) ==
    \/ \E resort \in ResortFilters, limit \in LimitParams :
            TripsSearchPaginated(p, resort, limit, NoCursor, <<>>, TRUE, TRUE)
    \/ TripsSearchPaginated(p, <<>>, <<>>, NoCursor, <<>>, TRUE, FALSE)
    \/ /\ out.op = "tripsSearch" /\ out.status = 200
       /\ out.search.nextCursor # NoCursor
       /\ TripsSearchPaginated(p, out.search.resort, out.search.limit,
                               out.search.nextCursor, out.search.seen,
                               out.search.walk, TRUE)
    \/ \E cursor \in CursorInputs :
            TripsSearchPaginated(p, <<>>, <<"2">>, cursor, <<>>, FALSE, TRUE)

NextSearch == \E p \in Procs : AllIdle /\ FirstFree(p) /\ SearchRequest(p)

SpecSearch == InitSearch /\ [][NextSearch]_vars

-----------------------------------------------------------------------------
(* The start of the process: connectWithRetry() until the server answers     *)

InitConnect ==
    /\ Fresh /\ prod = FALSE /\ tripDocs = NoTripDocs
    /\ \E up \in BOOLEAN : db = [Connecting EXCEPT !.up = up]

NextConnect == ServerTurns \/ MongooseConnect \/ RetryAfterDelay

SpecConnect == InitConnect /\ [][NextConnect]_vars




-----------------------------------------------------------------------------
(* Properties of the reset flow *)

\* the response in out answers a Reset that presented a 64-character token
\* with a new password and met no store failure
ResetAnswered ==
    /\ out.op = "reset"
    /\ out.answered
    /\ ~out.missing
    /\ out.token.len = TokenLen

Issued(tok) == tok.id \in DOMAIN issuedAt /\ issuedAt[tok.id] # NoDate

StoredFor(tok) ==
    { k \in Keys : users[k].exists /\ users[k].resetPasswordToken = Sha256(tok) }

\* C1: with one request at a time, a Reset that presents a token whose digest
\* an account still stores fails only when the token has expired, so the
\* first Reset made before expiry succeeds; a token is redeemed at most once,
\* and every Reset that is not its redemption fails with "Invalid or expired
\* reset token", whatever was requested in between.
SingleUseSequential ==
    ResetAnswered =>
        /\ out.status = 200 => ~out.again
        /\ out.status # 200 =>
              /\ out.status = 400
              /\ out.message = InvalidReset
              /\ \A k \in StoredFor(out.token) :
                    out.at >= users[k].resetPasswordExpires

\* a second Reset with a redeemed token is refused within the token's window
SecondResetRefused ==
    /\ ResetAnswered
    /\ out.status = 400
    /\ out.message = InvalidReset
    /\ out.token.id \in redeemed
    /\ out.at < issuedAt[out.token.id] + ResetTTL

\* C2: of the Resets that present one valid token, in any interleaving, at
\* most one succeeds and sets the password.
SingleUseConcurrent ==
    (out.op = "reset" /\ out.status = 200) => ~out.again

\* C3: a token issued at time t is redeemed only at times before
\* t + 15 minutes; a Reset that presents it at t + 15 minutes or later fails
\* with "Invalid or expired reset token".
ExpiryStrict ==
    (ResetAnswered /\ Issued(out.token)) =>
        /\ out.status = 200 => out.at < issuedAt[out.token.id] + ResetTTL
        /\ out.at >= issuedAt[out.token.id] + ResetTTL =>
              out.status = 400 /\ out.message = InvalidReset

\* a Reset at exactly t + 15 minutes is refused while the digest is stored
RefusedAtExpiry ==
    /\ ResetAnswered
    /\ Issued(out.token)
    /\ out.at = issuedAt[out.token.id] + ResetTTL
    /\ out.status = 400
    /\ out.message = InvalidReset
    /\ StoredFor(out.token) # {}

-----------------------------------------------------------------------------
(* Properties of the forgot flow *)

\* the response in out answers a Forgot that carried an email
ForgotAnswered == out.op = "forgot" /\ ~out.missing

\* C4: for a non-empty email, the status and the body of Forgot's response are
\* the same whether or not an account has the email, the devResetUrl field
\* of a non-production deployment aside.
EnumerationResistance ==
    ForgotAnswered =>
        /\ out.answered
        /\ out.status = 200
        /\ out.message = GenericOk
        /\ out.error = ""
        /\ out.jwt = NoJwt
        /\ prod => out.devResetUrl = NoToken

\* in production, a Forgot for an existing account that mailed its token
ForgotMailedInProduction ==
    /\ ForgotAnswered
    /\ prod
    /\ out.acct # NoKey
    /\ out.token # NoToken
    /\ out.fault = "none"

\* C6: when the account exists, the mail dispatch fails and the rollback's
\* read and write succeed, then after the response both token fields of the
\* account are absent, the token of that call matches no account, and the
\* response is the generic acknowledgment.
ForgotRollback ==
    (ForgotAnswered /\ out.fault = "mail" /\ out.rollback = "saved") =>
        /\ out.status = 200
        /\ out.message = GenericOk
        /\ users[out.acct].resetPasswordToken = NoDigest
        /\ users[out.acct].resetPasswordExpires = NoDate
        /\ ResetMatches(Sha256(out.token), now) = {}
        /\ StoredFor(out.token) = {}

\* a Forgot whose mail failed and whose rollback was saved
MailFailedRolledBack ==
    /\ ForgotAnswered
    /\ out.fault = "mail"
    /\ out.rollback = "saved"
    /\ out.token # NoToken
    /\ users[out.acct].exists

\* C7: Forgot answers every request that carries an email with the generic
\* acknowledgment, whether the lookup, the token save, the mail dispatch or
\* the rollback fails; "Email required" is its only failure.
ForgotNeverSurfaces ==
    out.op = "forgot" =>
        /\ out.answered
        /\ IF out.missing
           THEN out.status = 400 /\ out.message = "Email required"
           ELSE out.status = 200 /\ out.message = GenericOk /\ out.error = ""

\* a Forgot whose token save failed and whose rollback failed as well
SaveAndRollbackFailed ==
    /\ ForgotAnswered
    /\ out.fault = "save"
    /\ out.rollback = "failed"

-----------------------------------------------------------------------------
(* Properties of login and registration *)

\* the response answers a Login that reached the verify callback
LoginDecided(o) == o.op = "login" /\ ~o.missing /\ o.error = ""

\* C5: a Login for an email without account and a Login for an account with
\* a wrong password are answered with the same status and the same message.
LoginFailureSymmetry ==
    [][ (LoginDecided(out) /\ out.status # 200 /\
         LoginDecided(out') /\ out'.status # 200)
            => (out'.status = out.status /\ out'.message = out.message) ]_vars

-----------------------------------------------------------------------------
(* Properties of the gate *)

TripAnswered == out.op \in { "tripsAddTrip", "tripsUpdateTrip" }

\* the header is "Bearer <token>" and the token verified when the request came
BearerVerified(o) ==
    /\ o.header.scheme = "Bearer"
    /\ o.header.spaces = 1
    /\ JwtVerify(o.header.cred, o.at)

\* C10: the handler of a trip write runs only for a header "Bearer <token>"
\* whose token verifies and claims the role admin; without such a header or
\* with a token that does not verify the answer is 401, with a verified claim
\* of another role it is 403, and in both cases the chain stops before the
\* body validation and the trips collection is as the request found it.
GateDecision ==
    TripAnswered =>
        /\ out.stage = "handler" =>
              BearerVerified(out) /\ out.header.cred.role = "admin"
        /\ ~BearerVerified(out) =>
              out.status = 401 /\ out.stage = "auth" /\ trips = out.before
        /\ (BearerVerified(out) /\ out.header.cred.role # "admin") =>
              out.status = 403 /\ out.stage = "admin" /\ trips = out.before

\* a trip write with the verified token of a registered user is forbidden
UserTokenForbidden ==
    /\ TripAnswered
    /\ BearerVerified(out)
    /\ out.header.cred.role = "user"
    /\ out.status = 403

-----------------------------------------------------------------------------
(* Properties of sessions *)

\* the response answers a trip write that presented "Bearer <token>" with a
\* token this API signed
SignedTokenPresented ==
    /\ TripAnswered
    /\ out.header = Bearer(out.header.cred)
    /\ out.header.cred.sig = "valid"

\* C11: on the clock of whole seconds that the token records, a session token
\* issued at T passes verification at every time before T + 7 days, T + 1
\* second included, and is refused with 401 at the gate at T + 7 days + 1
\* second and at every later time.
SessionLifetime ==
    SignedTokenPresented =>
        LET tok == out.header.cred
            sec == out.at \div 1000
        IN  /\ sec < tok.iat + SessionTTL => out.stage # "auth"
            /\ sec >= tok.iat + SessionTTL =>
                  out.status = 401 /\ out.stage = "auth"

\* a token is refused one second after its seven days
RefusedAfterSevenDays ==
    /\ SignedTokenPresented
    /\ out.at \div 1000 = out.header.cred.iat + SessionTTL + 1
    /\ out.status = 401
    /\ out.message = "Token validation error"

-----------------------------------------------------------------------------
(* Properties of concurrent requests *)

\* the store keys every account by its own email, in its stored form
UniqueEmails ==
    \A k \in Keys :
        users[k].exists =>
            users[k].email = k /\ NormalizeEmail(users[k].email) = k

\* C12: of the Register calls for one email, in any interleaving with the
\* other requests, one succeeds: a Register succeeds and returns a token
\* only when no account has the email, and then the account exists; every
\* other one fails with 400 "Registration error", returns no token and leaves
\* the store as it is; no two accounts ever have the same email.
RegistrationExclusive ==
    /\ []UniqueEmails
    /\ [][ (out' # out /\ out'.op = "register" /\ ~out'.missing) =>
             IF out'.status = 200
             THEN /\ ~users[out'.acct].exists
                  /\ users'[out'.acct].exists
                  /\ out'.jwt # NoJwt
                  /\ out'.jwt.email = out'.acct
             ELSE /\ out'.status = 400
                  /\ out'.message = "Registration error"
                  /\ out'.jwt = NoJwt
                  /\ users' = users
                  /\ out'.error # "store error" => users[out'.acct].exists
          ]_vars

\* a Register is refused as a duplicate while another request is in flight
DuplicateRefusedInFlight ==
    /\ out.op = "register"
    /\ out.status = 400
    /\ out.error = "E11000 duplicate key"
    /\ users[out.acct].exists
    /\ ~AllIdle

\* C13: when two Forgot calls for one account ran concurrently, both wrote
\* their token and both have responded, the token whose write committed last
\* is redeemable. Read on the call that responds last after its dispatch
\* failed: the digest its rollback removed from the store is its own, never
\* the digest that the other call wrote after it.
ForgotLastWriteWins ==
    \A j \in TokenIds :
        ( /\ AllIdle
          /\ out.op = "forgot" /\ out.fault = "mail"
          /\ issuedAt[j] # NoDate /\ j \notin redeemed
          /\ out.token.id # j
          /\ now < issuedAt[j] + ResetTTL )
        => out.wiped # Sha256(PlainToken(j))

\* C14: in every reachable store state, under any interleaving of Register,
\* Forgot (dispatch succeeding or failing, rollback included) and Reset, each
\* account has its reset-token digest and its reset-token expiry either both
\* present or both absent.
ResetFieldsPaired ==
    \A k \in Keys :
        users[k].exists =>
            (users[k].resetPasswordToken = NoDigest
                <=> users[k].resetPasswordExpires = NoDate)

-----------------------------------------------------------------------------
(* Properties of the failures of reset *)

\* a Reset was answered with a failure
ResetFailed == out.op = "reset" /\ out.answered /\ out.status # 200

\* the token of the answered Reset is missing, too short, matches no stored
\* digest or had expired when reset looked it up
TokenUnusable ==
    \/ out.token = NoToken
    \/ out.token.len < TokenLen
    \/ ~Issued(out.token)
    \/ StoredFor(out.token) = {}
    \/ out.at >= issuedAt[out.token.id] + ResetTTL

\* C15: a Reset with no new password fails with 400 "New password required"
\* whatever its token is; with a password present, a missing token, a token
\* that is too short, a token that matches no stored digest and an expired
\* token all fail with the same status 400 and the same message; and a Reset
\* that fails changes no field of any account.
ResetFailureTaxonomy ==
    /\ [](out.op = "reset" /\ out.answered =>
            /\ out.missing =>
                  out.status = 400 /\ out.message = "New password required"
            /\ ResetFailed /\ ~out.missing =>
                  out.status = 400 /\ out.message = InvalidReset
            /\ ~out.missing /\ out.status = 200 => out.token.len >= TokenLen)
    /\ [][ (out' # out /\ out'.op = "reset" /\ out'.status # 200)
              => users' = users ]_vars
    /\ [][ (out' # out /\ out'.op = "reset" /\ out'.answered /\ ~out'.missing
              /\ ( \/ out'.token = NoToken
                   \/ out'.token.len < TokenLen
                   \/ ~Issued(out'.token)
                   \/ \A k \in Keys :
                         users[k].resetPasswordToken # Sha256(out'.token)
                   \/ out'.at >= issuedAt[out'.token.id] + ResetTTL ))
              => out'.status = 400 /\ out'.message = InvalidReset ]_vars

\* a Reset without a password and without a token is told that the password
\* is missing
NoPasswordNoToken ==
    /\ out.op = "reset" /\ out.missing
    /\ out.token = NoToken
    /\ out.status = 400

\* C16: Reset takes its token from the request body or from a path segment:
\* a request with a password whose token (the body's, or the path's when the
\* body has none) is stored and unexpired is answered with 200, also when a
\* path segment carries a token.
ResetTokenFromPath ==
    ( /\ out.op \in { "reset", "notfound" }
      /\ out.answered
      /\ out.password # ""
      /\ out.token.len = TokenLen
      /\ Issued(out.token)
      /\ out.token.id \notin redeemed
      /\ StoredFor(out.token) # {}
      /\ out.at < issuedAt[out.token.id] + ResetTTL )
    => out.status = 200

-----------------------------------------------------------------------------
(* Properties of the input checks of register and login *)

\* a Register or a Login was refused for a missing field
FieldsMissing(o) == o.op \in { "register", "login" } /\ o.missing

\* C17: a Register without name, email or password and a Login without email
\* or password are answered with 400 "All fields required", with no token
\* and without a lookup (whether or not the store works); such a request
\* leaves the store as it is, so no account has an empty name, an empty email
\* or the empty password, and every token returned answers a request with a
\* password and carries a name and an email.
InputCheck ==
    /\ [](FieldsMissing(out) =>
            /\ out.status = 400 /\ out.message = "All fields required"
            /\ out.jwt = NoJwt /\ out.acct = NoKey /\ out.error = "")
    /\ [](\A k \in Keys :
            users[k].exists =>
                users[k].name # "" /\ users[k].email # <<>>
                    /\ ~ValidPassword(users[k], ""))
    /\ [](out.op \in { "register", "login" } /\ out.jwt # NoJwt =>
            out.password # "" /\ out.jwt.name # "" /\ out.jwt.email # <<>>)
    /\ [][ FieldsMissing(out') /\ out' # out => users' = users ]_vars

\* a Register with a field missing was refused and no account has its email
RegisterRefusedForMissingField ==
    /\ out.op = "register" /\ out.missing
    /\ out.status = 400
    /\ ~users[<<"a">>].exists

-----------------------------------------------------------------------------
(* Properties of the role *)

\* C18: every account that a Register creates has the role user, no Register,
\* Login, Forgot or Reset changes the role of an account, and so a token with
\* the role admin is only ever returned for the account that was made
\* administrator in the store itself.
RoleImmutable ==
    /\ [][ \A k \in Keys :
             /\ users[k].exists => users'[k].role = users[k].role
             /\ ~users[k].exists /\ users'[k].exists => users'[k].role = "user"
         ]_vars
    /\ [](out.jwt # NoJwt /\ out.jwt.role = "admin" => out.jwt.email = AdminKey)

\* a Register created an account with the role user, after a Reset had
\* changed the administrator's password
RegisteredAsUser ==
    /\ out.op = "register" /\ out.status = 200
    /\ users[out.acct].role = "user"
    /\ out.jwt.role = "user"
    /\ redeemed # {}
    /\ users[AdminKey].role = "admin"

\* C19: a session token issued at T passes the gate at every time before
\* T + 7 days whatever happened since: the answer to a trip write with a
\* signed token follows from the token's role and the time alone (admin:
\* past authenticateJWT and requireAdmin; any other role: 403), also after
\* a Reset changed the account's password and after the account's role was
\* changed in the store.
NoRevocation ==
    ( /\ SignedTokenPresented
      /\ out.at \div 1000 < out.header.cred.iat + SessionTTL )
    => IF out.header.cred.role = "admin"
       THEN out.stage \notin { "auth", "admin" } /\ out.status \notin { 401, 403 }
       ELSE out.stage = "admin" /\ out.status = 403

\* an administrator's token passes the gate after a Reset changed the
\* account's password and the account was made a plain user in the store
StaleAdminTokenPasses ==
    /\ SignedTokenPresented
    /\ out.header.cred.role = "admin"
    /\ out.stage = "handler"
    /\ out.at > 0
    /\ users[out.header.cred.email].role = "user"
    /\ ~ValidPassword(users[out.header.cred.email], "pw1")
    /\ redeemed # {}

-----------------------------------------------------------------------------
(* Properties of the email *)

\* C20: emails that differ in letter case or in leading or trailing
\* whitespace denote one account: a Register with either spelling creates
\* the account stored under the lower-case trimmed email, or fails as a
\* duplicate when that account exists; a Login and a Forgot with either
\* spelling find that account when it exists and none otherwise.
EmailIdentity ==
    /\ [](\A k \in Keys :
            users[k].exists => users[k].email = k /\ k \in { <<"a">>, AdminKey })
    /\ [][ \A p \in Procs, e \in Spellings, w \in Passwords \ {""} :
             /\ (\E salt \in SaltDraws : Register(p, "Ana", e, w, salt, TRUE)) =>
                   IF users[<<"a">>].exists
                   THEN /\ out'.status = 400
                        /\ out'.error = "E11000 duplicate key"
                        /\ users' = users
                   ELSE /\ out'.status = 200
                        /\ out'.acct = <<"a">>
                        /\ users'[<<"a">>].exists
             /\ Login(p, e, w, TRUE) =>
                   out'.acct = IF users[<<"a">>].exists THEN <<"a">> ELSE NoKey
             /\ ForgotFind(p, e, TRUE, MaxTokens) =>
                   IF users[<<"a">>].exists
                   THEN pc'[p] = "f_save" /\ ctx'[p].acct = <<"a">>
                   ELSE out'.op = "forgot" /\ out'.acct = NoKey
         ]_vars

\* a Forgot for the registered account has issued a token that the account
\* stores, and a Register for its email is refused as a duplicate
DuplicateOfStoredEmail ==
    /\ out.op = "register"
    /\ out.error = "E11000 duplicate key"
    /\ out.acct = <<"a">>
    /\ users[<<"a">>].email = <<"a">>
    /\ users[<<"a">>].resetPasswordToken # NoDigest
    /\ AllIdle

-----------------------------------------------------------------------------
(* Properties of the password hasher *)

\* C21: verifying P against the material of setPassword(P) succeeds, and
\* verifying any other password against it fails: a Login that follows the
\* Register or the Reset that set the account's password succeeds exactly
\* when it presents the same password.
PasswordRoundTrip ==
    [][ ( /\ out.op \in { "register", "reset" } /\ out.status = 200
          /\ LoginDecided(out') /\ out'.acct = out.acct )
            => (out'.status = 200 <=> out'.password = out.password) ]_vars

-----------------------------------------------------------------------------
(* Properties of the failure responses *)

\* C22: no failure response of Register, Login or Reset carries internal
\* error detail: the body of such a response has no text of an error of the
\* store.
NoInternalErrorText ==
    ( /\ out.op \in { "register", "login", "reset" }
      /\ out.answered
      /\ out.status # 200 )
    => out.error = ""

-----------------------------------------------------------------------------
(* Properties of the write of reset *)

\* C23: Reset is one transition of the store: the save of a Reset either
\* fails and changes nothing, or sets the hash and salt of the new password
\* and unsets both token fields of that account in the same step, so no
\* state has the new password with the redeemed token still stored or the
\* token cleared by a Reset under the old password; and no other step
\* changes the password of an existing account.
ResetOneTransition ==
    [][ /\ \A p \in Procs :
             (pc[p] = "s_save" /\ pc'[p] # "s_save") =>
                 \/ users' = users
                 \/ LET k == ctx[p].acct
                    IN  /\ users'[k].salt = ctx[p].salt
                        /\ ValidPassword(users'[k], ctx[p].password)
                        /\ users'[k].resetPasswordToken = NoDigest
                        /\ users'[k].resetPasswordExpires = NoDate
                        /\ \A j \in Keys \ {k} : users'[j] = users[j]
        /\ \A k \in Keys :
             (users[k].exists /\ users'[k].hash # users[k].hash) =>
                 /\ \E p \in Procs : pc[p] = "s_save" /\ pc'[p] = "idle"
                                        /\ ctx[p].acct = k
                 /\ users'[k].resetPasswordToken = NoDigest
                 /\ users'[k].resetPasswordExpires = NoDate
      ]_vars

\* the save of a Reset failed: the account keeps the old password and the
\* token is still stored
ResetSaveFailed ==
    /\ out.op = "reset" /\ out.fault = "save"
    /\ StoredFor(out.token) # {}
    /\ ValidPassword(users[AdminKey], "pw1")
    /\ ~ValidPassword(users[AdminKey], out.password)

\* C24: a Reset with a password whose token is not exactly 64 characters
\* long, shorter or longer, is answered 400 "Invalid or expired reset token"
\* before any lookup in the store, so whether or not the store works.
LengthFastPath ==
    ( /\ out.op = "reset"
      /\ ~out.missing
      /\ out.token.len # TokenLen )
    => /\ out.answered
       /\ out.status = 400 /\ out.message = InvalidReset
       /\ out.fault = "none"

-----------------------------------------------------------------------------
(* Properties of the plaintext token *)

\* C25: the plaintext reset token is never persisted or logged: the store
\* holds nothing but digests of tokens, and no Forgot or Reset writes the
\* plaintext token, or a link that embeds it, to the log.
PlaintextNeverLogged ==
    /\ \A k \in Keys :
          users[k].resetPasswordToken \in
              { NoDigest } \cup { Sha256(PlainToken(i)) : i \in TokenIds }
    /\ out.op \in { "forgot", "reset" } => out.logged = NoToken

\* C26: in production no Forgot response carries the reset link; the
\* devResetUrl field appears only outside production and only when the
\* account exists and the mail was sent, and then it is the link of the
\* token that the call issued.
DiagnosticScope ==
    out.op = "forgot" =>
        /\ prod => out.devResetUrl = NoToken
        /\ out.devResetUrl # NoToken =>
              /\ ~prod
              /\ out.acct # NoKey
              /\ out.fault = "none"
              /\ out.devResetUrl = out.token
              /\ Issued(out.token)
        /\ out.message = GenericOk \/ out.missing

\* outside production, a Forgot answered with the link of its token
DevResetUrlReturned ==
    /\ out.op = "forgot"
    /\ ~prod
    /\ out.devResetUrl = out.token
    /\ out.token # NoToken
    /\ StoredFor(out.token) # {}

\* C27: validPassword returns false for every input and never throws: a
\* Login whose password is not a string is answered like any other wrong
\* password, with 401 and without an error.
VerifyPasswordTotal ==
    (out.op = "login" /\ out.password = NumberPassword) =>
        /\ out.status = 401
        /\ out.error = ""
        /\ out.jwt = NoJwt

\* C28: every setPassword, at Register and at each successful Reset, stores a
\* new salt and the key derived with it: given that randomBytes does not
\* repeat a value, the stored salt is one the account never held (it is
\* later in the generator's order than the one replaced), the stored hash is
\* the key of the request's password under the new salt, and this is so
\* also when the new password is the old one.
SaltFreshness ==
    [][ /\ (out' # out /\ out'.op \in { "register", "reset" } /\ out'.status = 200) =>
             LET k == out'.acct
             IN  /\ users'[k].salt # users[k].salt
                 /\ SaltRank(users'[k].salt) > SaltRank(users[k].salt)
                 /\ users'[k].hash = Pbkdf2(out'.password, users'[k].salt)
                 /\ users'[k].hash # users[k].hash
        /\ \A k \in Keys : users'[k].hash # users[k].hash
                              <=> users'[k].salt # users[k].salt
      ]_vars

\* a Reset set the password the account already had: the salt and the hash
\* are new
SamePasswordNewSalt ==
    /\ out.op = "reset" /\ out.status = 200
    /\ out.acct = AdminKey
    /\ out.password = "pw1"
    /\ users[AdminKey].salt # "s1"
    /\ users[AdminKey].hash # AdminUser.hash
    /\ ValidPassword(users[AdminKey], "pw1")

-----------------------------------------------------------------------------
(* Properties of the rollback of forgot *)

\* C29: when the mail dispatch fails and the rollback's read or save fails
\* as well, Forgot still answers with the generic acknowledgment, and the
\* token that the call wrote stays stored for its account and is redeemable
\* at every time before its expiry, 15 minutes after it was issued, and at
\* no later time.
DanglingToken ==
    (ForgotAnswered /\ out.fault = "mail" /\ out.rollback = "failed") =>
        /\ out.answered
        /\ out.status = 200 /\ out.message = GenericOk
        /\ StoredFor(out.token) = { out.acct }
        /\ users[out.acct].resetPasswordExpires = issuedAt[out.token.id] + ResetTTL
        /\ ResetMatches(Sha256(out.token), now) =
              IF now < issuedAt[out.token.id] + ResetTTL THEN { out.acct } ELSE {}

\* the token left behind by a failed rollback is redeemable one millisecond
\* before its expiry
DanglingTokenRedeemable ==
    /\ ForgotAnswered /\ out.fault = "mail" /\ out.rollback = "failed"
    /\ now = issuedAt[out.token.id] + ResetTTL - 1
    /\ ResetMatches(Sha256(out.token), now) = { out.acct }

\* C30: the rollback of a Forgot whose dispatch failed clears only the token
\* that the same call issued, so that after a concurrent Forgot for the same
\* account whose dispatch succeeded, and with no token redeemed, that call's
\* token is still stored when both have responded.
RollbackIsolation ==
    /\ (out.op = "forgot" /\ out.fault = "mail" /\ out.rollback = "saved") =>
          out.wiped \in { NoDigest, Sha256(out.token) }
    /\ ( /\ AllIdle
         /\ out.op = "forgot" /\ out.fault = "none" /\ out.token # NoToken
         /\ redeemed = {} )
       => users[out.acct].resetPasswordToken # NoDigest

-----------------------------------------------------------------------------
(* Properties of the answers *)

\* C31: every Register, Login, Forgot and Reset request receives a response,
\* also when a read or a write of the store fails during the request or
\* when the hashing of the password throws: no request ends unanswered.
EveryRequestAnswered ==
    out.op \in { "register", "login", "forgot", "reset" } => out.answered

-----------------------------------------------------------------------------
(* Properties of the password material *)

\* the passwords that verify against the stored hash and salt of account k
VerifyingPasswords(k) ==
    { w \in Passwords \cup HashPasswords : ValidPassword(users[k], w) }

\* the stored hash of every account is a derivation under its stored salt
DerivedUnderStoredSalt ==
    \A k \in Keys : users[k].exists => VerifyingPasswords(k) # {}

\* C32: in every reachable state of the store, under any interleaving of
\* Register and Reset, the stored hash of each account is the derivation of
\* exactly one password under the salt stored with it, and only that
\* password passes the verification of Login.
PasswordMaterialConsistency ==
    \A k \in Keys : users[k].exists => Cardinality(VerifyingPasswords(k)) = 1

-----------------------------------------------------------------------------
(* Properties of the writes of forgot *)

\* the fields of an account that Login and the session claims read
Credentials(u) == <<u.exists, u.hash, u.salt, u.email, u.name, u.role>>

ForgotLabels == { "f_save", "f_mail", "f_rbfind", "f_rbsave" }

\* a step of a Forgot call: its first step, one of its awaits, or its response
ForgotStep ==
    \/ \E p \in Procs : pc'[p] # pc[p] /\ (pc[p] \in ForgotLabels \/ pc'[p] \in ForgotLabels)
    \/ out' # out /\ out'.op = "forgot"

\* C33: no step of a Forgot call, whether its dispatch succeeds or fails and
\* rolls back, changes the hash, salt, email, name or role of any account,
\* so every password verifies after the step exactly as it did before it.
ForgotLeavesCredentials ==
    [][ ForgotStep =>
          \A k \in Keys :
              /\ Credentials(users'[k]) = Credentials(users[k])
              /\ \A w \in Passwords :
                     ValidPassword(users'[k], w) = ValidPassword(users[k], w) ]_vars

\* a Forgot whose dispatch failed has rolled back, and the old password of
\* its account still verifies
ForgotRolledBackPasswordKept ==
    /\ out.op = "forgot"
    /\ out.fault = "mail"
    /\ out.rollback = "saved"
    /\ out.acct \in Keys
    /\ ValidPassword(users[out.acct], "pw1")

-----------------------------------------------------------------------------
(* Properties of the binding of a reset token to its account *)

\* the save of a Reset of slot p commits in this step
ResetCommits(p) == pc[p] = "s_save" /\ pc'[p] # "s_save" /\ users' # users

\* C34: a successful Reset changes the password material and the token
\* fields of exactly one account, the one the presented token was issued
\* for, and leaves every other account as it was; a digest is only ever
\* stored in the account its token was issued for, and the password of an
\* existing account changes only by a Reset with a token issued for it.
ResetTokenBinding ==
    /\ [](\A k \in Keys, i \in TokenIds :
             users[k].resetPasswordToken = Sha256(PlainToken(i)) => issuedFor[i] = k)
    /\ [][ /\ \A p \in Procs :
                ResetCommits(p) =>
                    LET k == issuedFor[ctx[p].token.id]
                    IN  /\ k \in Keys
                        /\ ctx[p].acct = k
                        /\ ValidPassword(users'[k], ctx[p].password)
                        /\ users'[k].resetPasswordToken = NoDigest
                        /\ users'[k].resetPasswordExpires = NoDate
                        /\ \A j \in Keys \ {k} : users'[j] = users[j]
           /\ \A j \in Keys :
                ( users[j].exists /\ <<users'[j].hash, users'[j].salt>> #
                                     <<users[j].hash, users[j].salt>> )
                    => \E p \in Procs :
                          ResetCommits(p) /\ issuedFor[ctx[p].token.id] = j ]_vars

\* a Reset with the token of one account has changed that account while
\* another account holds a token of its own and keeps its password
ResetOfOneOfTwoAccounts ==
    /\ out.op = "reset" /\ out.status = 200
    /\ issuedFor[out.token.id] = out.acct
    /\ ValidPassword(users[out.acct], out.password)
    /\ \E j \in Keys \ {out.acct} :
          /\ users[j].resetPasswordToken # NoDigest
          /\ ValidPassword(users[j], "pw1")

-----------------------------------------------------------------------------
(* Properties of the codes of the stored trips *)

\* the controller of a create answers in this step
CreateAnswered ==
    out' # out /\ out'.op = "tripsAddTrip" /\ out'.stage = "handler" /\ out'.code # ""

\* C36: under any interleaving of the creates of administrators no two
\* stored trips share a code; a create whose code is stored when it answers
\* adds no trip and, whether its lookup or the unique index of the store
\* found the code, is answered 409; a create answered 201 has added the one
\* trip of its code.
TripCodeUnique ==
    /\ [](\A c \in TripCodes : Len(trips[c]) <= 1)
    /\ [][ CreateAnswered =>
             /\ trips[out'.code] # <<>> =>
                    /\ trips' = trips
                    /\ out'.fault = "none" => out'.status = 409
             /\ out'.status = 201 =>
                    /\ trips[out'.code] = <<>>
                    /\ Len(trips'[out'.code]) = 1 ]_vars

\* two creates of one code raced: the lookup of this one found no trip and
\* the unique index refused its save
DuplicateRefusedByIndex ==
    /\ out.op = "tripsAddTrip"
    /\ out.status = 409 /\ out.message = "Duplicate key"
    /\ out.before[out.code] = <<>>
    /\ Len(trips[out.code]) = 1

-----------------------------------------------------------------------------
(* Properties of the search *)

Range(f) == { f[i] : i \in DOMAIN f }

Ascending(f) == \A i, j \in DOMAIN f : i < j => f[i] < f[j]

\* the search of the latest response succeeded
Searched == out.op = "tripsSearch" /\ out.status = 200

\* the matching trips that lie after the last trip of the page
AfterPage ==
    IF out.search.page = <<>> THEN {}
    ELSE { id \in BuildTripQuery(out.search.resort) :
             id > out.search.page[Len(out.search.page)] }

\* C35: on a collection without writes, the pages from a search without
\* cursor on, following nextCursor, hold matching trips only, in ascending
\* order of _id and so none twice, at most limit per page; nextCursor is
\* null exactly when no matching trip lies after the last trip of the page,
\* and then the pages together hold every matching trip.
PaginationComplete ==
    (Searched /\ out.search.walk) =>
        /\ Len(out.search.page) <= Limit(out.search.limit)
        /\ Ascending(out.search.seen)
        /\ Range(out.search.seen) \subseteq BuildTripQuery(out.search.resort)
        /\ (out.search.nextCursor = NoCursor) <=> (AfterPage = {})
        /\ out.search.page = <<>> => BuildTripQuery(out.search.resort) = {}
        /\ out.search.nextCursor = NoCursor =>
               Range(out.search.seen) = BuildTripQuery(out.search.resort)

\* a walk of at least three pages has ended and a trip of the collection
\* did not match the filter
WalkOfThreePagesEnded ==
    /\ Searched /\ out.search.walk
    /\ out.search.nextCursor = NoCursor
    /\ out.search.cursor # NoCursor
    /\ Len(out.search.seen) > 2 * Limit(out.search.limit)
    /\ \E id \in TripIds :
          tripDocs[id] # NoDoc /\ id \notin BuildTripQuery(out.search.resort)

\* the page size the limit parameter of the latest search stands for: 5
\* when it is absent or is no number, else its number brought into 1..50
StatedPageSize ==
    LET parsed == ParseInt(out.search.limit)
    IN  IF out.search.limit = <<>> \/ parsed.nan THEN 5
        ELSE IF parsed.val < 1 THEN 1
        ELSE IF parsed.val > 50 THEN 50
        ELSE parsed.val

\* the matching trips the cursor of the latest search leaves to return
Available ==
    { id \in BuildTripQuery(out.search.resort) :
        out.search.cursor # NoCursor => id > DecodeCursor(out.search.cursor) }

\* C38: the page size a search uses is 5 when the limit parameter is absent
\* or not a number, and else the parsed limit clamped into 1..50: the page
\* holds that many trips, or all that are left when they are fewer.
PageSizeClamp ==
    Searched =>
        /\ Limit(out.search.limit) = StatedPageSize
        /\ Len(out.search.page) = Min(StatedPageSize, Cardinality(Available))
        /\ out.search.nextCursor # NoCursor <=> Cardinality(Available) > StatedPageSize

\* a search whose limit is no number returned a page of 5 trips
DefaultPageOfFive ==
    /\ Searched
    /\ out.search.limit = <<"a", "b", "c">>
    /\ Len(out.search.page) = 5

-----------------------------------------------------------------------------
(* Properties of the connection retries *)

\* C37: the wait set after the failed attempt number n, counted from 0, is
\* min(30000, 1000 * 2^n) milliseconds: 1s, 2s, 4s, ..., never shorter than
\* the wait before it and never above 30s; after every wait a further
\* attempt is made, and an attempt that finds the server answering resolves
\* connectWithRetry with the connection.
RetryBackoff ==
    /\ [](db.state = "waiting" =>
             /\ db.delay = (IF 1000 * 2 ^ db.retry < 30000
                            THEN 1000 * 2 ^ db.retry ELSE 30000)
             /\ db.retry = 0 => db.delay = 1000
             /\ db.retry = 1 => db.delay = 2000
             /\ db.retry = 2 => db.delay = 4000
             /\ db.prev <= db.delay
             /\ db.delay <= 30000)
    /\ [][ /\ (db.state = "waiting" /\ db'.state # "waiting") =>
                  (db'.state = "connecting" /\ db'.retry = db.retry + 1)
           /\ (db.state = "connecting" /\ db'.state # "connecting") =>
                  IF db.up THEN db'.state = "connected"
                  ELSE db'.state = "waiting" /\ db'.retry = db.retry
           /\ db.state = "connected" => db'.state = "connected" ]_vars

\* the connection was made at the attempt after two capped waits
ConnectedAfterCappedWait ==
    /\ db.state = "connected"
    /\ db.retry = 7
    /\ db.delay = 30000 /\ db.prev = 30000

====
